---- MODULE Spec2Model ----
(***************************************************************************)
(* Model of eth/api_tracer_parity.go: the Parity/OpenEthereum-style trace  *)
(* API of core-geth (PrivateTraceAPI.Block, Transaction, Filter, Call,     *)
(* CallMany) and its helpers (setTraceConfigDefaultTracer,                 *)
(* decorateResponse, decorateNestedTraceResponse, traceBlockReward,        *)
(* traceBlockUncleRewards).                                                *)
(*                                                                         *)
(* Go values are encoded as follows.                                       *)
(*   - a pointer to a scalar (string, hexutil.Big, common.Address,         *)
(*     common.Hash, uint64) is a sequence: <<>> is nil, <<v>> points to v  *)
(*   - a TraceConfig pointer is an address into the heap (a sequence of    *)
(*     TraceConfig objects); address 0 is nil                              *)
(*   - a slice is [isNil, elems]: Go distinguishes a nil slice from an     *)
(*     empty one (JSON null against [])                                    *)
(*   - a nil interface{}, ParityTrace pointer or Block pointer is the      *)
(*     record [nil |-> TRUE]                                               *)
(*   - an error is [msg, args]: the format string and its arguments;       *)
(*     the nil error has the empty format string                           *)
(***************************************************************************)
EXTENDS Integers, Sequences, FiniteSets, TLC

\* ------------------------------------------------------------- bounds
MaxHead == 2
MaxTxs == 2
MaxSub == 2
MaxUncles == 2
MaxRewards == 3

VARIABLES head, pending, heap, req, resp

vars == <<head, pending, heap, req, resp>>

\* ------------------------------------------------------------- Go values
NilPtr == <<>>
Ptr(v) == <<v>>

NilSlice == [isNil |-> TRUE, elems |-> <<>>]
MakeSlice(s) == [isNil |-> FALSE, elems |-> s]

NilValue == [nil |-> TRUE]

NoErr == [msg |-> "", args |-> <<>>]
Errorf(format, args) == [msg |-> format, args |-> args]

\* uint64(number) of a negative rpc.BlockNumber wraps to the top of the
\* unsigned range; the range is 31 bits wide here instead of 64 (the widest
\* the checker's integers hold), which keeps every wrapped number beyond any
\* block the chain has.
Uint64(n) == IF n >= 0 THEN n ELSE (2147483647 + n) + 1

\* ------------------------------------------------------------- types
ZeroTraceRewardAction == [Value |-> NilPtr, Author |-> NilPtr, RewardType |-> ""]

ZeroParityTrace ==
  [ Action |-> ZeroTraceRewardAction,
    BlockHash |-> 0,
    BlockNumber |-> 0,
    Error |-> "",
    Result |-> NilValue,
    Subtraces |-> 0,
    TraceAddress |-> NilSlice,
    TransactionHash |-> NilPtr,
    TransactionPosition |-> NilPtr,
    Type |-> "" ]

ZeroTraceConfig == [Tracer |-> NilPtr, NestedTraceOutput |-> FALSE]

Tracers == {"callTracerParity", "stateDiffTracer", "otherTracer"}

TraceConfigs ==
  [Tracer : {NilPtr} \cup {Ptr(t) : t \in Tracers}, NestedTraceOutput : BOOLEAN]

\* What a caller passes as config: nil, or a pointer to a TraceConfig.
ConfigInputs == {NilValue} \cup TraceConfigs

CallerHeap(c) == IF c = NilValue THEN <<>> ELSE <<c>>
CallerPtr(c) == IF c = NilValue THEN 0 ELSE 1

\* ------------------------------------------------------------- chain
PendingBlockNumber == 0 - 2
LatestBlockNumber == 0 - 1

UncleHeader(n, i) == [Coinbase |-> 2000 + (10 * n) + i]

BlockAt(n) ==
  [ Number |-> n,
    Hash |-> 100 + n,
    Coinbase |-> 1000 + n,
    Uncles |-> [i \in 1..(n % (MaxUncles + 1)) |-> UncleHeader(n, i)] ]

GetBlockByNumber(n) == IF n \in 0..head THEN BlockAt(n) ELSE NilValue
CurrentBlock == BlockAt(head)
PendingBlock == IF pending THEN BlockAt(head + 1) ELSE NilValue

\* ethash.GetRewards: the miner reward and the ordered uncle rewards.
RewardOutcomes ==
  {[minerReward |-> 5, uncleRewards |-> [i \in 1..r |-> 30 + i]] : r \in 0..MaxRewards}

\* ------------------------------------------------------------- helpers
\* Mutant: the default overwrites a tracer the caller named.
setTraceConfigDefaultTracerOverwrite(h, config) ==
  LET h1 == IF config = 0 THEN Append(h, ZeroTraceConfig) ELSE h
      c1 == IF config = 0 THEN Len(h1) ELSE config
  IN [heap |-> [h1 EXCEPT ![c1].Tracer = Ptr("callTracerParity")], config |-> c1]

\* Mutant: the default is set in a copy and the copy is returned.
setTraceConfigDefaultTracerCopy(h, config) ==
  LET c0 == IF config = 0 THEN ZeroTraceConfig ELSE h[config]
      c1 == IF c0.Tracer = NilPtr
              THEN [c0 EXCEPT !.Tracer = Ptr("callTracerParity")]
              ELSE c0
  IN [heap |-> Append(h, c1), config |-> Len(h) + 1]

setTraceConfigDefaultTracer(h, config) ==
  LET h1 == IF config = 0 THEN Append(h, ZeroTraceConfig) ELSE h
      c1 == IF config = 0 THEN Len(h1) ELSE config
      h2 == IF h1[c1].Tracer = NilPtr
              THEN [h1 EXCEPT ![c1].Tracer = Ptr("callTracerParity")]
              ELSE h1
  IN [heap |-> h2, config |-> c1]

\* Mutant: an unknown tracer's result is wrapped like the call tracer's.
decorateNestedTraceResponseAlways(res, tracer) ==
  IF tracer = "stateDiffTracer" THEN [key |-> "stateDiff", val |-> res]
  ELSE [key |-> "trace", val |-> res]

decorateNestedTraceResponse(res, tracer) ==
  IF tracer = "callTracerParity" THEN [key |-> "trace", val |-> res]
  ELSE IF tracer = "stateDiffTracer" THEN [key |-> "stateDiff", val |-> res]
  ELSE res

decorateResponse(res, h, config) ==
  IF config # 0 /\ h[config].NestedTraceOutput /\ h[config].Tracer # NilPtr
    THEN [res |-> decorateNestedTraceResponse(res, h[config].Tracer[1]), err |-> NoErr]
    ELSE [res |-> res, err |-> NoErr]

\* ------------------------------------------------------------- rewards
traceBlockReward(block, rewards) ==
  [ ZeroParityTrace EXCEPT
      !.Type = "reward",
      !.Action = [ Value |-> Ptr(rewards.minerReward),
                   Author |-> Ptr(block.Coinbase),
                   RewardType |-> "block" ],
      !.TraceAddress = MakeSlice(<<>>),
      !.BlockHash = block.Hash,
      !.BlockNumber = block.Number ]

\* Mutant: the uncle reward is credited to the block's coinbase.
UncleRewardTraceBlockAuthor(block, uncle, reward) ==
  [ ZeroParityTrace EXCEPT
      !.Type = "reward",
      !.Action = [ Value |-> Ptr(reward),
                   Author |-> Ptr(block.Coinbase),
                   RewardType |-> "uncle" ],
      !.TraceAddress = MakeSlice(<<>>),
      !.BlockNumber = block.Number,
      !.BlockHash = block.Hash ]

UncleRewardTrace(block, uncle, reward) ==
  [ ZeroParityTrace EXCEPT
      !.Type = "reward",
      !.Action = [ Value |-> Ptr(reward),
                   Author |-> Ptr(uncle.Coinbase),
                   RewardType |-> "uncle" ],
      !.TraceAddress = MakeSlice(<<>>),
      !.BlockNumber = block.Number,
      !.BlockHash = block.Hash ]

\* Mutant: the result is sized by the uncles, so an uncle without a reward
\* leaves a nil entry.
traceBlockUncleRewardsPerUncle(block, rewards) ==
  [ i \in 1..Len(block.Uncles) |->
      IF i <= Len(rewards.uncleRewards)
        THEN [ ZeroParityTrace EXCEPT
                 !.Type = "reward",
                 !.Action = [ Value |-> Ptr(rewards.uncleRewards[i]),
                              Author |-> Ptr(block.Uncles[i].Coinbase),
                              RewardType |-> "uncle" ],
                 !.TraceAddress = MakeSlice(<<>>),
                 !.BlockNumber = block.Number,
                 !.BlockHash = block.Hash ]
        ELSE NilValue ]

\* results := make([]*ParityTrace, len(uncleRewards)) holds len(uncleRewards)
\* nil pointers; the loop over block.Uncles() fills index i when
\* i < len(uncleRewards).
traceBlockUncleRewards(block, rewards) ==
  LET uncleRewards == rewards.uncleRewards
      uncles == block.Uncles
  IN [ i \in 1..Len(uncleRewards) |->
         IF i \in 1..Len(uncles) /\ i <= Len(uncleRewards)
           THEN UncleRewardTrace(block, uncles[i], uncleRewards[i])
           ELSE NilValue ]

\* ------------------------------------------------------------- tracers
\* The external tracers (traceBlockByNumber, traceTransaction, traceChain,
\* traceCall, traceCallMany) are opaque: each returns a result or an error.
TracerError == Errorf("tracer error", <<>>)

\* A transaction's traced payload (json.RawMessage): a JSON array of k
\* sub-results, or a JSON value that is not an array.
RawArray(t, k) == [isArray |-> TRUE, elems |-> [s \in 1..k |-> [raw |-> (10 * t) + s]]]
RawObject == [isArray |-> FALSE, elems |-> <<>>]

TxShapes == {0 - 1} \cup (0..MaxSub)

TraceResultsOf(shape) ==
  [ t \in 1..Len(shape) |->
      [Result |-> IF shape[t] < 0 THEN RawObject ELSE RawArray(t, shape[t])] ]

BlockTracerOutcomes ==
  {[results |-> <<>>, err |-> TracerError]} \cup
  { [results |-> TraceResultsOf(shape), err |-> NoErr] :
      shape \in UNION {[1..n -> TxShapes] : n \in 0..MaxTxs} }

Payloads == {[raw |-> 1], [raw |-> 2]}

CallTracerOutcomes ==
  {[res |-> NilValue, err |-> TracerError]} \cup {[res |-> r, err |-> NoErr] : r \in Payloads}

Subscription == [ID |-> 7]

ChainTracerOutcomes ==
  {[sub |-> NilValue, err |-> TracerError], [sub |-> Subscription, err |-> NoErr]}

\* json.Unmarshal(raw, &tmp) with tmp a []interface{}
Unmarshal(raw) ==
  IF raw.isArray
    THEN [val |-> raw.elems, err |-> NoErr]
    ELSE [val |-> <<>>, err |-> Errorf("json: cannot unmarshal into []interface {}", <<>>)]

\* ------------------------------------------------------------- Block
ResolveBlock(number) ==
  CASE number = PendingBlockNumber -> PendingBlock
    [] number = LatestBlockNumber -> CurrentBlock
    [] OTHER -> GetBlockByNumber(Uint64(number))

\* The merge of Block: the loop over traceResults, then the block reward,
\* then the uncle rewards.  Returns the pair (results, err) of Block.
\* Mutant: what was spliced before the failure is returned with the error.
DecodeFailurePartial(results, err) == [result |-> MakeSlice(results), err |-> err]

\* return nil, err on a payload that does not decode: what was spliced so
\* far is dropped.
DecodeFailure(results, err) == [result |-> NilSlice, err |-> err]

RECURSIVE SpliceFrom(_, _, _)
SpliceFrom(traceResults, i, results) ==
  IF i > Len(traceResults)
    THEN [result |-> MakeSlice(results), err |-> NoErr]
    ELSE LET d == Unmarshal(traceResults[i].Result)
         IN IF d.err # NoErr
              THEN DecodeFailure(results, d.err)
              ELSE SpliceFrom(traceResults, i + 1, results \o d.val)

RECURSIVE AppendAll(_, _, _)
AppendAll(results, items, i) ==
  IF i > Len(items) THEN results
  ELSE AppendAll(Append(results, items[i]), items, i + 1)

BlockMerge(traceResults, traceReward, traceUncleRewards) ==
  LET spliced == SpliceFrom(traceResults, 1, <<>>)
  IN IF spliced.err # NoErr
       THEN spliced
       ELSE [ result |-> MakeSlice(AppendAll(Append(spliced.result.elems, traceReward),
                                             traceUncleRewards, 1)),
              err |-> NoErr ]

\* PrivateTraceAPI.Block on heap h: out is what traceBlockByNumber returns,
\* rewards what ethash.GetRewards returns for the block.
BlockCall(h, number, config, out, rewards) ==
  LET block == ResolveBlock(number)
      cfg == setTraceConfigDefaultTracer(h, config)
      invoked == <<[fn |-> "traceBlockByNumber", config |-> cfg.config]>>
  IN IF block = NilValue
       THEN [ heap |-> h, result |-> NilSlice,
              err |-> Errorf("block #%d not found", <<number>>), calls |-> <<>> ]
       ELSE IF out.err # NoErr
         THEN [heap |-> cfg.heap, result |-> NilSlice, err |-> out.err, calls |-> invoked]
         ELSE LET merged == BlockMerge(out.results,
                                       traceBlockReward(block, rewards),
                                       traceBlockUncleRewards(block, rewards))
              IN [ heap |-> cfg.heap, result |-> merged.result,
                   err |-> merged.err, calls |-> invoked ]

BlockNumbers == (0 - 3)..(MaxHead + 1)

Block ==
  /\ req.op = "idle"
  /\ \E number \in BlockNumbers, c \in ConfigInputs,
        out \in BlockTracerOutcomes, rewards \in RewardOutcomes :
       LET r == BlockCall(CallerHeap(c), number, CallerPtr(c), out, rewards)
       IN /\ req' = [ op |-> "Block", number |-> number, config |-> CallerPtr(c),
                      before |-> CallerHeap(c), block |-> ResolveBlock(number),
                      tracer |-> out, rewards |-> rewards ]
          /\ resp' = [result |-> r.result, err |-> r.err, calls |-> r.calls]
          /\ heap' = r.heap
  /\ UNCHANGED <<head, pending>>

\* ------------------------------------------------------------- Transaction
TransactionCall(h, config, out) ==
  LET cfg == setTraceConfigDefaultTracer(h, config)
  IN [ heap |-> cfg.heap, result |-> out.res, err |-> out.err,
       calls |-> <<[fn |-> "traceTransaction", config |-> cfg.config]>> ]

Transaction ==
  /\ req.op = "idle"
  /\ \E c \in ConfigInputs, out \in CallTracerOutcomes :
       LET r == TransactionCall(CallerHeap(c), CallerPtr(c), out)
       IN /\ req' = [ op |-> "Transaction", config |-> CallerPtr(c),
                      before |-> CallerHeap(c), tracer |-> out ]
          /\ resp' = [result |-> r.result, err |-> r.err, calls |-> r.calls]
          /\ heap' = r.heap
  /\ UNCHANGED <<head, pending>>

\* ------------------------------------------------------------- Filter
\* Mutant: equal bounds pass.
InvalidRangeEqualAllowed(from, to) == from.Number > to.Number

\* from.Number().Cmp(to.Number()) >= 0
InvalidRange(from, to) == from.Number >= to.Number

\* PrivateTraceAPI.Filter: out is what traceChain returns when it is called.
FilterCall(h, fromBlock, toBlock, config, out) ==
  LET cfg == setTraceConfigDefaultTracer(h, config)
      start == Uint64(fromBlock)
      end == Uint64(toBlock)
      from == GetBlockByNumber(start)
      to == GetBlockByNumber(end)
      failed(e) == [heap |-> cfg.heap, result |-> NilValue, err |-> e, calls |-> <<>>]
  IN IF from = NilValue
       THEN failed(Errorf("starting block #%d not found", <<start>>))
     ELSE IF to = NilValue
       THEN failed(Errorf("end block #%d not found", <<end>>))
     ELSE IF InvalidRange(from, to)
       THEN failed(Errorf("end block (#%d) needs to come after start block (#%d)",
                          <<end, start>>))
     ELSE [ heap |-> cfg.heap, result |-> out.sub, err |-> out.err,
            calls |-> <<[fn |-> "traceChain", config |-> cfg.config,
                         from |-> from.Number, to |-> to.Number]>> ]

FilterNumbers == 0..(MaxHead + 1)

Filter ==
  /\ req.op = "idle"
  /\ \E fromBlock \in FilterNumbers, toBlock \in FilterNumbers,
        c \in ConfigInputs, out \in ChainTracerOutcomes :
       LET r == FilterCall(CallerHeap(c), fromBlock, toBlock, CallerPtr(c), out)
       IN /\ req' = [ op |-> "Filter", FromBlock |-> fromBlock, ToBlock |-> toBlock,
                      config |-> CallerPtr(c), before |-> CallerHeap(c), tracer |-> out ]
          /\ resp' = [result |-> r.result, err |-> r.err, calls |-> r.calls]
          /\ heap' = r.heap
  /\ UNCHANGED <<head, pending>>

\* ------------------------------------------------------------- Call, CallMany
CallCall(h, config, out) ==
  LET cfg == setTraceConfigDefaultTracer(h, config)
      invoked == <<[fn |-> "traceCall", config |-> cfg.config]>>
      d == decorateResponse(out.res, cfg.heap, cfg.config)
  IN IF out.err # NoErr
       THEN [heap |-> cfg.heap, result |-> NilValue, err |-> out.err, calls |-> invoked]
       ELSE [heap |-> cfg.heap, result |-> d.res, err |-> d.err, calls |-> invoked]

Call ==
  /\ req.op = "idle"
  /\ \E c \in ConfigInputs, out \in CallTracerOutcomes :
       LET r == CallCall(CallerHeap(c), CallerPtr(c), out)
       IN /\ req' = [ op |-> "Call", config |-> CallerPtr(c),
                      before |-> CallerHeap(c), tracer |-> out ]
          /\ resp' = [result |-> r.result, err |-> r.err, calls |-> r.calls]
          /\ heap' = r.heap
  /\ UNCHANGED <<head, pending>>

\* Mutant: CallMany decorates its result as Call does.
CallManyCallDecorated(h, config, out) ==
  LET cfg == setTraceConfigDefaultTracer(h, config)
      invoked == <<[fn |-> "traceCallMany", config |-> cfg.config]>>
      d == decorateResponse(out.res, cfg.heap, cfg.config)
  IN IF out.err # NoErr
       THEN [heap |-> cfg.heap, result |-> NilValue, err |-> out.err, calls |-> invoked]
       ELSE [heap |-> cfg.heap, result |-> d.res, err |-> d.err, calls |-> invoked]

CallManyCall(h, config, out) ==
  LET cfg == setTraceConfigDefaultTracer(h, config)
      invoked == <<[fn |-> "traceCallMany", config |-> cfg.config]>>
  IN IF out.err # NoErr
       THEN [heap |-> cfg.heap, result |-> NilValue, err |-> out.err, calls |-> invoked]
       ELSE [heap |-> cfg.heap, result |-> out.res, err |-> NoErr, calls |-> invoked]

CallMany ==
  /\ req.op = "idle"
  /\ \E c \in ConfigInputs, out \in CallTracerOutcomes :
       LET r == CallManyCall(CallerHeap(c), CallerPtr(c), out)
       IN /\ req' = [ op |-> "CallMany", config |-> CallerPtr(c),
                      before |-> CallerHeap(c), tracer |-> out ]
          /\ resp' = [result |-> r.result, err |-> r.err, calls |-> r.calls]
          /\ heap' = r.heap
  /\ UNCHANGED <<head, pending>>

\* ------------------------------------------------------------- the helpers, called directly
\* setTraceConfigDefaultTracer applied to a caller's config, and then once
\* more to the pointer it returned.
SetDefaultTracer ==
  /\ req.op = "idle"
  /\ \E c \in ConfigInputs :
       LET r == setTraceConfigDefaultTracer(CallerHeap(c), CallerPtr(c))
       IN /\ req' = [ op |-> "setTraceConfigDefaultTracer", config |-> CallerPtr(c),
                      before |-> CallerHeap(c), applied |-> 1 ]
          /\ resp' = [config |-> r.config, first |-> r]
          /\ heap' = r.heap
  /\ UNCHANGED <<head, pending>>

SetDefaultTracerAgain ==
  /\ req.op = "setTraceConfigDefaultTracer"
  /\ req.applied = 1
  /\ LET r == setTraceConfigDefaultTracer(heap, resp.config)
     IN /\ req' = [req EXCEPT !.applied = 2]
        /\ resp' = [resp EXCEPT !.config = r.config]
        /\ heap' = r.heap
  /\ UNCHANGED <<head, pending>>

\* traceBlockReward and traceBlockUncleRewards applied to a block that
\* resolves and to what ethash.GetRewards returns for it.
TraceBlockReward ==
  /\ req.op = "idle"
  /\ \E number \in BlockNumbers, rewards \in RewardOutcomes :
       /\ ResolveBlock(number) # NilValue
       /\ req' = [ op |-> "traceBlockReward", block |-> ResolveBlock(number),
                   rewards |-> rewards ]
       /\ resp' = [ result |-> traceBlockReward(ResolveBlock(number), rewards),
                    err |-> NoErr ]
  /\ UNCHANGED <<head, pending, heap>>

TraceBlockUncleRewards ==
  /\ req.op = "idle"
  /\ \E number \in BlockNumbers, rewards \in RewardOutcomes :
       /\ ResolveBlock(number) # NilValue
       /\ req' = [ op |-> "traceBlockUncleRewards", block |-> ResolveBlock(number),
                   rewards |-> rewards ]
       /\ resp' = [ result |-> traceBlockUncleRewards(ResolveBlock(number), rewards),
                    err |-> NoErr ]
  /\ UNCHANGED <<head, pending, heap>>

\* decorateResponse applied to a result and a caller's config as it is
\* (not resolved first).
Decorate ==
  /\ req.op = "idle"
  /\ \E res \in Payloads, c \in ConfigInputs :
       LET d == decorateResponse(res, CallerHeap(c), CallerPtr(c))
       IN /\ req' = [ op |-> "decorateResponse", res |-> res, config |-> CallerPtr(c),
                      before |-> CallerHeap(c) ]
          /\ resp' = [result |-> d.res, err |-> d.err]
          /\ heap' = CallerHeap(c)
  /\ UNCHANGED <<head, pending>>

Init ==
  /\ head \in 0..MaxHead
  /\ pending \in BOOLEAN
  /\ heap = <<>>
  /\ req = [op |-> "idle"]
  /\ resp = [op |-> "idle"]

Reply ==
  /\ req.op # "idle"
  /\ heap' = <<>>
  /\ req' = [op |-> "idle"]
  /\ resp' = [op |-> "idle"]
  /\ UNCHANGED <<head, pending>>

Next ==
  \/ Block
  \/ Transaction
  \/ Filter
  \/ Call
  \/ CallMany
  \/ SetDefaultTracer
  \/ SetDefaultTracerAgain
  \/ Decorate
  \/ TraceBlockReward
  \/ TraceBlockUncleRewards
  \/ Reply

Spec == Init /\ [][Next]_vars

\* ============================================================= claims
Min(a, b) == IF a < b THEN a ELSE b

\* The sub-results of all transactions, in block order, one after another.
RECURSIVE Flattened(_)
Flattened(traceResults) ==
  IF traceResults = <<>> THEN <<>>
  ELSE Head(traceResults).Result.elems \o Flattened(Tail(traceResults))

AllDecode(traceResults) ==
  \A t \in 1..Len(traceResults) : traceResults[t].Result.isArray

\* A Block request whose block resolves, whose tracer succeeds and whose
\* per-transaction payloads are all sequences.
BlockInputsGood ==
  /\ req.op = "Block"
  /\ req.block # NilValue
  /\ req.tracer.err = NoErr
  /\ AllDecode(req.tracer.results)

\* The reward record the wire format expects, field by field.
ExpectedReward(block, rewardType, author, value) ==
  [ Action |-> [Value |-> <<value>>, Author |-> <<author>>, RewardType |-> rewardType],
    BlockHash |-> block.Hash,
    BlockNumber |-> block.Number,
    Error |-> "",
    Result |-> [nil |-> TRUE],
    Subtraces |-> 0,
    TraceAddress |-> [isNil |-> FALSE, elems |-> <<>>],
    TransactionHash |-> <<>>,
    TransactionPosition |-> <<>>,
    Type |-> "reward" ]

IsRecord(e) == "Type" \in DOMAIN e

C2_FilterValidation ==
  req.op = "Filter" =>
  LET f == req.FromBlock
      t == req.ToBlock
      fromExists == f \in 0..head
      toExists == t \in 0..head
      valid == fromExists /\ toExists /\ f < t
  IN /\ (resp.calls # <<>>) <=> valid
     /\ valid =>
          /\ Len(resp.calls) = 1
          /\ resp.calls[1].fn = "traceChain"
          /\ resp.calls[1].from = f /\ resp.calls[1].to = t
          /\ resp.result = req.tracer.sub
          /\ resp.err = req.tracer.err
     /\ ~valid =>
          /\ resp.result = [nil |-> TRUE]
          /\ resp.err =
               IF ~fromExists
                 THEN [msg |-> "starting block #%d not found", args |-> <<f>>]
               ELSE IF ~toExists
                 THEN [msg |-> "end block #%d not found", args |-> <<t>>]
               ELSE [ msg |-> "end block (#%d) needs to come after start block (#%d)",
                      args |-> <<t, f>> ]

C2_Witness ==
  /\ req.op = "Filter"
  /\ req.FromBlock = 1 /\ req.ToBlock = 2
  /\ resp.result = Subscription
  /\ resp.err = NoErr
  /\ Len(resp.calls) = 1

\* C3: Block returns no partial result: when the block does not resolve,
\* the tracer fails, or one transaction's payload is not a sequence, it
\* returns an error and a nil result; when no block resolves the error is
\* the not-found error carrying the requested number and no tracer was
\* called; a tracer error is passed on as it is.
C3_NoPartialResults ==
  req.op = "Block" =>
    /\ ( \/ req.block = NilValue
         \/ req.tracer.err # NoErr
         \/ ~AllDecode(req.tracer.results) )
       => (resp.err # NoErr /\ resp.result = [isNil |-> TRUE, elems |-> <<>>])
    /\ req.block = NilValue =>
         /\ resp.err = [msg |-> "block #%d not found", args |-> <<req.number>>]
         /\ resp.calls = <<>>
    /\ (req.block # NilValue /\ req.tracer.err # NoErr) => resp.err = req.tracer.err
    /\ resp.err = NoErr => ~resp.result.isNil

\* The second transaction's payload does not decode after the first one
\* contributed two sub-results.
C3_Witness ==
  /\ req.op = "Block"
  /\ req.block # NilValue
  /\ req.tracer.err = NoErr
  /\ Len(req.tracer.results) = 2
  /\ Len(req.tracer.results[1].Result.elems) = 2
  /\ ~req.tracer.results[2].Result.isArray
  /\ resp.err # NoErr
  /\ resp.result = NilSlice

\* C4: every reward record has type "reward", subtraces 0, an empty (not
\* nil) traceAddress, null transactionHash, transactionPosition and result,
\* the block's hash and number; the block-reward record has rewardType
\* "block", the block's coinbase as author and the miner reward as value;
\* the uncle-reward record at index i has rewardType "uncle", the coinbase
\* of uncle i as author and reward i as value.  It holds of the records
\* traceBlockReward and traceBlockUncleRewards return and of those in a
\* Block result.
C4_RewardRecordShape ==
  /\ req.op = "traceBlockReward" =>
       resp.result = ExpectedReward(req.block, "block", req.block.Coinbase,
                                    req.rewards.minerReward)
  /\ req.op = "traceBlockUncleRewards" =>
       \A i \in 1..Len(resp.result) :
         IsRecord(resp.result[i]) =>
           /\ i <= Len(req.block.Uncles)
           /\ resp.result[i] = ExpectedReward(req.block, "uncle",
                                              req.block.Uncles[i].Coinbase,
                                              req.rewards.uncleRewards[i])
  /\ (req.op = "Block" /\ resp.err = NoErr) =>
       LET out == resp.result.elems
           F == Len(Flattened(req.tracer.results))
       IN \A k \in 1..Len(out) :
            IsRecord(out[k]) =>
              /\ k > F
              /\ k = F + 1 =>
                   out[k] = ExpectedReward(req.block, "block", req.block.Coinbase,
                                           req.rewards.minerReward)
              /\ k > F + 1 =>
                   /\ k - (F + 1) <= Len(req.block.Uncles)
                   /\ out[k] = ExpectedReward(req.block, "uncle",
                                              req.block.Uncles[k - (F + 1)].Coinbase,
                                              req.rewards.uncleRewards[k - (F + 1)])

C4_Witness ==
  /\ req.op = "Block"
  /\ resp.err = NoErr
  /\ Len(req.block.Uncles) = 2
  /\ Len(req.rewards.uncleRewards) = 2
  /\ Len(resp.result.elems) = Len(Flattened(req.tracer.results)) + 3
  /\ IsRecord(resp.result.elems[Len(resp.result.elems)])
  /\ resp.result.elems[Len(resp.result.elems)].Action.RewardType = "uncle"

\* The caller's configuration object before the call (config # 0).
CallerBefore == req.before[req.config]

\* The wrapping the wire format expects of result r under tracer identifier
\* tracer (a pointer) with the nested flag as given.
ExpectedDecoration(r, tracer, nested) ==
  IF nested /\ tracer = <<"callTracerParity">> THEN [key |-> "trace", val |-> r]
  ELSE IF nested /\ tracer = <<"stateDiffTracer">> THEN [key |-> "stateDiff", val |-> r]
  ELSE r

\* C5: decorateResponse returns {"trace": r} when nested output is requested
\* and the tracer is "callTracerParity", {"stateDiff": r} when nested output
\* is requested and the tracer is "stateDiffTracer", and r itself in every
\* other case (nested output not requested, configuration absent, tracer
\* unset, any other tracer); it never returns an error.
C5_Decorate ==
  req.op = "decorateResponse" =>
    /\ resp.err = [msg |-> "", args |-> <<>>]
    /\ req.config = 0 => resp.result = req.res
    /\ req.config # 0 =>
         resp.result = ExpectedDecoration(req.res, CallerBefore.Tracer,
                                          CallerBefore.NestedTraceOutput)
    /\ heap = req.before

C5_Witness ==
  /\ req.op = "decorateResponse"
  /\ req.config # 0
  /\ CallerBefore.NestedTraceOutput
  /\ CallerBefore.Tracer = <<"stateDiffTracer">>
  /\ resp.result = [key |-> "stateDiff", val |-> req.res]

\* C6: the configuration setTraceConfigDefaultTracer returns always has a
\* tracer; it is "callTracerParity" when the caller's configuration was
\* absent or had no tracer and the caller's identifier otherwise; the other
\* field, NestedTraceOutput, is carried over; applying the function again to
\* what it returned returns the same configuration and changes nothing.
C6_ResolveIdempotent ==
  req.op = "setTraceConfigDefaultTracer" =>
    /\ resp.first.config # 0
    /\ resp.first.heap[resp.first.config].Tracer # <<>>
    /\ resp.first.heap[resp.first.config].Tracer =
         IF req.config = 0 \/ CallerBefore.Tracer = <<>>
           THEN <<"callTracerParity">>
           ELSE CallerBefore.Tracer
    /\ resp.first.heap[resp.first.config].NestedTraceOutput =
         IF req.config = 0 THEN FALSE ELSE CallerBefore.NestedTraceOutput
    /\ req.applied = 2 =>
         /\ resp.config = resp.first.config
         /\ heap = resp.first.heap

C6_Witness ==
  /\ req.op = "setTraceConfigDefaultTracer"
  /\ req.applied = 2
  /\ req.config # 0
  /\ CallerBefore.Tracer = <<>>
  /\ CallerBefore.NestedTraceOutput
  /\ heap[resp.config] = [Tracer |-> <<"callTracerParity">>, NestedTraceOutput |-> TRUE]

\* C7: for a block with U uncles and a reward list of length R < U,
\* traceBlockUncleRewards returns no error and exactly R records: record i
\* is the uncle-reward record of uncle i (its coinbase as author, reward i
\* as value), the same record it is when every uncle has a reward; the
\* uncles at index R and above get no record.
C7_UncleLeniency ==
  ( /\ req.op = "traceBlockUncleRewards"
    /\ Len(req.rewards.uncleRewards) < Len(req.block.Uncles) )
  =>
    /\ resp.err = [msg |-> "", args |-> <<>>]
    /\ Len(resp.result) = Len(req.rewards.uncleRewards)
    /\ \A i \in 1..Len(resp.result) :
         resp.result[i] = ExpectedReward(req.block, "uncle",
                                         req.block.Uncles[i].Coinbase,
                                         req.rewards.uncleRewards[i])

C7_Witness ==
  /\ req.op = "traceBlockUncleRewards"
  /\ Len(req.block.Uncles) = 2
  /\ Len(req.rewards.uncleRewards) = 1
  /\ Len(resp.result) = 1
  /\ IsRecord(resp.result[1])

\* C8 (as stated): setTraceConfigDefaultTracer leaves the object the caller
\* holds as it was before the call.
C8_ResolvePure ==
  (req.op = "setTraceConfigDefaultTracer" /\ req.config # 0) =>
    heap[req.config] = CallerBefore

\* C8 (amended): setTraceConfigDefaultTracer returns the caller's own
\* object, not a copy; it changes that object only by writing the default
\* tracer into it when its tracer was unset; an object whose tracer is set
\* is left as it was, and NestedTraceOutput is never changed.
C8_ResolveInPlace ==
  (req.op = "setTraceConfigDefaultTracer" /\ req.config # 0) =>
    /\ resp.first.config = req.config
    /\ Len(resp.first.heap) = Len(req.before)
    /\ resp.first.heap[req.config] =
         IF CallerBefore.Tracer = <<>>
           THEN [ Tracer |-> <<"callTracerParity">>,
                  NestedTraceOutput |-> CallerBefore.NestedTraceOutput ]
           ELSE CallerBefore

C8_Witness ==
  /\ req.op = "setTraceConfigDefaultTracer"
  /\ req.applied = 1
  /\ req.config # 0
  /\ CallerBefore.Tracer = <<>>
  /\ heap[req.config].Tracer = <<"callTracerParity">>

\* C9: Call returns the tracer's result decorated under the resolved
\* configuration (the default tracer "callTracerParity" stands in for an
\* unset tracer, so nested output with no tracer gives {"trace": r});
\* CallMany returns the tracer's result as it is under every configuration;
\* both return a tracer error as it is, with a nil result.
C9_CallHandlers ==
  /\ req.op \in {"Call", "CallMany"} =>
       /\ Len(resp.calls) = 1
       /\ req.tracer.err # NoErr =>
            (resp.err = req.tracer.err /\ resp.result = [nil |-> TRUE])
       /\ req.tracer.err = NoErr => resp.err = [msg |-> "", args |-> <<>>]
  /\ (req.op = "Call" /\ req.tracer.err = NoErr) =>
       resp.result =
         IF req.config = 0 THEN req.tracer.res
         ELSE ExpectedDecoration(req.tracer.res,
                                 IF CallerBefore.Tracer = <<>>
                                   THEN <<"callTracerParity">>
                                   ELSE CallerBefore.Tracer,
                                 CallerBefore.NestedTraceOutput)
  /\ (req.op = "CallMany" /\ req.tracer.err = NoErr) =>
       resp.result = req.tracer.res

\* Call with nested output requested and no tracer named.
C9_Witness ==
  /\ req.op = "Call"
  /\ req.config # 0
  /\ CallerBefore.Tracer = <<>>
  /\ CallerBefore.NestedTraceOutput
  /\ req.tracer.err = NoErr
  /\ resp.result = [key |-> "trace", val |-> req.tracer.res]

====
